---------------------------- MODULE Spec2Model ----------------------------
(***************************************************************************)
(* A model of generateSentences.py: the vocabulary (Words), the lexical    *)
(* index (makeWordsByText), the agreement functions (pronounForm,          *)
(* verbTextInForm), the selection policy (newOrAnyWord, newOrAnyVerb,      *)
(* newOrAnyNotExpectsInfinitiveVerb) and the SentenceGenerator state       *)
(* machine driven by generateSentence.                                     *)
(*                                                                         *)
(* Texts are sequences of Unicode code points, so that str.lower(),        *)
(* str.capitalize() and " ".join() are modelled by what they do.  A Python *)
(* exception is an outcome record [exc, at]: the exception class and the   *)
(* function whose body raised it.  A call that draws from the random       *)
(* module has a set of possible outcomes; the coin bool(getrandbits(1))    *)
(* is an input of the operators that read it.                              *)
(***************************************************************************)
EXTENDS Integers, Sequences, FiniteSets

VARIABLES
    words,              \* the Words argument of generateSentence
    wordTextToWord,     \* the lexical index argument
    wordsToLearn,       \* the learning targets argument
    pc,                 \* position in generateSentence
    startWithQuestion,  \* SentenceGenerator.startWithQuestion
    sentence,           \* SentenceGenerator.sentence
    nextPart,           \* SentenceGenerator.nextPart
    questionWord,       \* the word returned by newOrAnyWord at line 169
    pronoun,            \* the local `pronoun` of generateNextPart (line 173)
    newVerb,            \* the local `newVerb` of generateNextPart (line 184)
    infinitiveVerb,     \* the word returned at line 180
    calls,              \* number of generateNextPart calls made so far
    error,              \* the exception that ended the call, or NoError
    result              \* the string generateSentence returned, or NoResult

vars == <<words, wordTextToWord, wordsToLearn, pc, startWithQuestion, sentence,
          nextPart, questionWord, pronoun, newVerb, infinitiveVerb, calls,
          error, result>>

---------------------------------------------------------------------------
(* Bounds of the model. *)

MaxVerbs == 3
MaxWordsToLearn == 2

---------------------------------------------------------------------------
(* Absent values.  None stands for Python's None in an enum-typed field;   *)
(* record-typed optionals have a record of their own.                      *)

None == "None"
NoWord == [type |-> None]
NoneWordForm == [conjugationType |-> None, singleOrPlural |-> None]
NoneNextPart == [type |-> None, wordType |-> None, wordForm |-> NoneWordForm,
                 verbQuestion |-> None]
NoError == [exc |-> None, at |-> None]
NoResult == [returned |-> FALSE, text |-> <<>>]

---------------------------------------------------------------------------
(* Text: str.lower, str.capitalize, " ".join on code points.  The case     *)
(* mapping is the one of Basic Latin and of the Cyrillic letters           *)
(* U+0410..U+044F; every other code point used by the model is uncased.    *)

LowerChar(c) ==
    IF c \in 65..90 \/ c \in 1040..1071 THEN c + 32 ELSE c

UpperChar(c) ==
    IF c \in 97..122 \/ c \in 1072..1103 THEN c - 32 ELSE c

Lower(text) == [i \in 1..Len(text) |-> LowerChar(text[i])]

Capitalize(text) ==
    [i \in 1..Len(text) |-> IF i = 1 THEN UpperChar(text[i]) ELSE LowerChar(text[i])]

RECURSIVE Join(_)
Join(tokens) ==
    IF Len(tokens) = 0 THEN <<>>
    ELSE IF Len(tokens) = 1 THEN tokens[1]
    ELSE tokens[1] \o <<32>> \o Join(Tail(tokens))

---------------------------------------------------------------------------
(* Vocabulary model. *)

WordType == {"Question", "Pronoun", "Verb"}

PronounName == {"I", "You", "He", "She", "We", "YouPlural", "They"}

\* The value of each PronounName member.  We is written with a Latin
\* capital M (U+004D) followed by U+044B.
PronounNameValue(name) ==
    CASE name = "I" -> <<1071>>
      [] name = "You" -> <<1058, 1099>>
      [] name = "He" -> <<1054, 1085>>
      [] name = "She" -> <<1054, 1085, 1072>>
      [] name = "We" -> <<77, 1099>>
      [] name = "YouPlural" -> <<1042, 1099>>
      [] name = "They" -> <<1054, 1085, 1080>>

VerbQuestion == {"ToWhom", "Whom", "WithWhom", "AboutWhom"}

SingleOrPlural == {"Singular", "Plural"}

ConjugationType == {"Infinitive", "First", "Second", "Third"}

ConjugationTypeValue(conjugationType) ==
    CASE conjugationType = "Infinitive" -> 3
      [] conjugationType = "First" -> 0
      [] conjugationType = "Second" -> 1
      [] conjugationType = "Third" -> 2

WordForm(conjugationType, singleOrPlural) ==
    [conjugationType |-> conjugationType, singleOrPlural |-> singleOrPlural]

QuestionWord(text) == [type |-> "Question", text |-> text]

PronounWord(pronounName) == [type |-> "Pronoun", pronounName |-> pronounName]

Conjugation(singular, plural) == [singular |-> singular, plural |-> plural]

VerbWord(infinitive, conjugations, expectInfinitive, questions) ==
    [type |-> "Verb",
     forms |-> [infinitive |-> infinitive, conjugations |-> conjugations],
     expectInfinitive |-> expectInfinitive,
     questions |-> questions]

Words(questionWords, pronouns, verbs) ==
    [questionWords |-> questionWords, pronouns |-> pronouns, verbs |-> verbs]

---------------------------------------------------------------------------
(* Outcomes of a call: a returned value or a raised exception. *)

Return(val) == [exc |-> None, at |-> None, val |-> val]
Raise(exc, at) == [exc |-> exc, at |-> at, val |-> NoWord]

---------------------------------------------------------------------------
(* Agreement resolver. *)

wordText(word) ==
    Lower(CASE word.type = "Question" -> word.text
            [] word.type = "Pronoun" -> PronounNameValue(word.pronounName)
            [] word.type = "Verb" -> word.forms.infinitive)

\* pronounForm with the number of We taken from the case of I.
pronounFormWeSingular(p) ==
    CASE p.pronounName = "I" -> WordForm("First", "Singular")
      [] p.pronounName = "You" -> WordForm("Second", "Singular")
      [] p.pronounName \in {"He", "She"} -> WordForm("Third", "Singular")
      [] p.pronounName = "We" -> WordForm("First", "Singular")
      [] p.pronounName = "YouPlural" -> WordForm("Second", "Plural")
      [] p.pronounName = "They" -> WordForm("Third", "Plural")

pronounForm(p) ==
    CASE p.pronounName = "I" -> WordForm("First", "Singular")
      [] p.pronounName = "You" -> WordForm("Second", "Singular")
      [] p.pronounName \in {"He", "She"} -> WordForm("Third", "Singular")
      [] p.pronounName = "We" -> WordForm("First", "Plural")
      [] p.pronounName = "YouPlural" -> WordForm("Second", "Plural")
      [] p.pronounName = "They" -> WordForm("Third", "Plural")

\* verbTextInForm reading the value of the conjugation type as a position
\* counted from one.
verbTextInFormOneBased(verb, form) ==
    IF form.conjugationType = "Infinitive"
    THEN Return(Lower(verb.forms.infinitive))
    ELSE IF ConjugationTypeValue(form.conjugationType) + 1 >= Len(verb.forms.conjugations)
    THEN Raise("IndexError", "verbTextInForm")
    ELSE LET conjugation ==
                 verb.forms.conjugations[ConjugationTypeValue(form.conjugationType) + 2]
         IN  Return(Lower(IF form.singleOrPlural = "Singular"
                          THEN conjugation.singular
                          ELSE conjugation.plural))

\* verbTextInForm without the case of the infinitive: every form indexes
\* the conjugation list by the value of its conjugation type.
verbTextInFormNoInfinitiveCase(verb, form) ==
    IF ConjugationTypeValue(form.conjugationType) >= Len(verb.forms.conjugations)
    THEN Raise("IndexError", "verbTextInForm")
    ELSE LET conjugation ==
                 verb.forms.conjugations[ConjugationTypeValue(form.conjugationType) + 1]
         IN  Return(Lower(IF form.singleOrPlural = "Singular"
                          THEN conjugation.singular
                          ELSE conjugation.plural))

\* verbTextInForm with the singular and the plural text exchanged.
verbTextInFormSwapped(verb, form) ==
    IF form.conjugationType = "Infinitive"
    THEN Return(Lower(verb.forms.infinitive))
    ELSE IF ConjugationTypeValue(form.conjugationType) >= Len(verb.forms.conjugations)
    THEN Raise("IndexError", "verbTextInForm")
    ELSE LET conjugation ==
                 verb.forms.conjugations[ConjugationTypeValue(form.conjugationType) + 1]
         IN  Return(Lower(IF form.singleOrPlural = "Singular"
                          THEN conjugation.plural
                          ELSE conjugation.singular))

\* verbTextInForm taking the last conjugation when the person's index is
\* past the end of the list.
verbTextInFormClamped(verb, form) ==
    IF form.conjugationType = "Infinitive"
    THEN Return(Lower(verb.forms.infinitive))
    ELSE LET n == Len(verb.forms.conjugations)
             k == ConjugationTypeValue(form.conjugationType) + 1
             conjugation == verb.forms.conjugations[IF k > n THEN n ELSE k]
         IN  Return(Lower(IF form.singleOrPlural = "Singular"
                          THEN conjugation.singular
                          ELSE conjugation.plural))

\* The outcome of verbTextInForm: the text, or IndexError when the
\* conjugation list has no element at the person's index.
verbTextInForm(verb, form) ==
    IF form.conjugationType = "Infinitive"
    THEN Return(Lower(verb.forms.infinitive))
    ELSE IF ConjugationTypeValue(form.conjugationType) >= Len(verb.forms.conjugations)
    THEN Raise("IndexError", "verbTextInForm")
    ELSE LET conjugation ==
                 verb.forms.conjugations[ConjugationTypeValue(form.conjugationType) + 1]
         IN  Return(Lower(IF form.singleOrPlural = "Singular"
                          THEN conjugation.singular
                          ELSE conjugation.plural))

---------------------------------------------------------------------------
(* Lexical index. *)

\* The lists in the order makeWordsByText scans them.
ScanOrder(ws) == ws.questionWords \o ws.pronouns \o ws.verbs

\* makeWordsByText keeping the first word scanned for a text.
makeWordsByTextFirstWins(ws) ==
    LET scanned == ScanOrder(ws)
        first(text) == CHOOSE i \in 1..Len(scanned) :
                           /\ wordText(scanned[i]) = text
                           /\ \A j \in 1..(i - 1) : wordText(scanned[j]) # text
    IN  [text \in {wordText(scanned[i]) : i \in 1..Len(scanned)} |-> scanned[first(text)]]

makeWordsByText(ws) ==
    LET scanned == ScanOrder(ws)
        last(text) == CHOOSE i \in 1..Len(scanned) :
                          /\ wordText(scanned[i]) = text
                          /\ \A j \in (i + 1)..Len(scanned) : wordText(scanned[j]) # text
    IN  [text \in {wordText(scanned[i]) : i \in 1..Len(scanned)} |-> scanned[last(text)]]

---------------------------------------------------------------------------
(* Selection policy.  A call that draws from the random module has a set  *)
(* of possible outcomes, one per value the draw can return.                *)

\* The values random.randrange(start, stop) can return.
randrange(start, stop) == start..(stop - 1)

\* random.randrange(0, 0) raises ValueError.
randomWordFromList(wordList) ==
    IF Len(wordList) = 0
    THEN {Raise("ValueError", "randomWordFromList")}
    ELSE {Return(wordList[i + 1]) : i \in randrange(0, Len(wordList))}

\* wordTextToWord[wordText] raises KeyError for a text that is no key.
HasUnknown(index, toLearn) ==
    \E i \in 1..Len(toLearn) : toLearn[i] \notin DOMAIN index

\* [wordTextToWord[wordText] for wordText in wordsToLearn], every text a key.
Resolve(index, toLearn) == [i \in 1..Len(toLearn) |-> index[toLearn[i]]]

\* newOrAnyWord whose fallback always returns the first word of the list.
newOrAnyWordFallbackFirst(wordList, index, toLearn) ==
    IF Len(wordList) = 0 THEN {Raise("IndexError", "newOrAnyWord")}
    ELSE IF HasUnknown(index, toLearn) THEN {Raise("KeyError", "newOrAnyWord")}
    ELSE LET type == wordList[1].type
             wordsToLearnOfType ==
                 SelectSeq(Resolve(index, toLearn), LAMBDA w : w.type = type)
         IN  IF Len(wordsToLearnOfType) > 0
             THEN randomWordFromList(wordsToLearnOfType)
             ELSE {Return(wordList[1])}

\* newOrAnyWord drawing from the words to learn and the whole list together.
newOrAnyWordMixed(wordList, index, toLearn) ==
    IF Len(wordList) = 0 THEN {Raise("IndexError", "newOrAnyWord")}
    ELSE IF HasUnknown(index, toLearn) THEN {Raise("KeyError", "newOrAnyWord")}
    ELSE LET type == wordList[1].type
             wordsToLearnOfType ==
                 SelectSeq(Resolve(index, toLearn), LAMBDA w : w.type = type)
         IN  randomWordFromList(wordsToLearnOfType \o wordList)

newOrAnyWord(wordList, index, toLearn) ==
    IF Len(wordList) = 0 THEN {Raise("IndexError", "newOrAnyWord")}
    ELSE IF HasUnknown(index, toLearn) THEN {Raise("KeyError", "newOrAnyWord")}
    ELSE LET type == wordList[1].type
             wordsToLearnOfType ==
                 SelectSeq(Resolve(index, toLearn), LAMBDA w : w.type = type)
         IN  IF Len(wordsToLearnOfType) > 0
             THEN randomWordFromList(wordsToLearnOfType)
             ELSE randomWordFromList(wordList)

\* newOrAnyVerb that never reads the coin: a verb to learn whenever there
\* is one.
newOrAnyVerbAlwaysToLearn(verbList, index, toLearn, coin) ==
    IF HasUnknown(index, toLearn) THEN {Raise("KeyError", "newOrAnyVerb")}
    ELSE LET verbsToLearn ==
                 SelectSeq(Resolve(index, toLearn), LAMBDA w : w.type = "Verb")
         IN  IF Len(verbsToLearn) > 0
             THEN randomWordFromList(verbsToLearn)
             ELSE randomWordFromList(verbList)

\* newOrAnyVerb whose fallback branch draws from every verb of the list.
newOrAnyVerbFallbackAny(verbList, index, toLearn, coin) ==
    IF HasUnknown(index, toLearn) THEN {Raise("KeyError", "newOrAnyVerb")}
    ELSE LET verbsToLearn ==
                 SelectSeq(Resolve(index, toLearn), LAMBDA w : w.type = "Verb")
         IN  IF Len(verbsToLearn) > 0
             THEN IF Len(SelectSeq(verbsToLearn, LAMBDA v : v.expectInfinitive)) > 0
                     \/ coin
                  THEN randomWordFromList(verbsToLearn)
                  ELSE randomWordFromList(verbList)
             ELSE randomWordFromList(verbList)

\* coin is the value of bool(random.getrandbits(1)); it is read only when
\* no verb to learn expects an infinitive.
newOrAnyVerb(verbList, index, toLearn, coin) ==
    IF HasUnknown(index, toLearn) THEN {Raise("KeyError", "newOrAnyVerb")}
    ELSE LET verbsToLearn ==
                 SelectSeq(Resolve(index, toLearn), LAMBDA w : w.type = "Verb")
         IN  IF Len(verbsToLearn) > 0
             THEN IF Len(SelectSeq(verbsToLearn, LAMBDA v : v.expectInfinitive)) > 0
                     \/ coin
                  THEN randomWordFromList(verbsToLearn)
                  ELSE randomWordFromList(
                           SelectSeq(verbList, LAMBDA v : v.expectInfinitive))
             ELSE randomWordFromList(verbList)

\* newOrAnyNotExpectsInfinitiveVerb that does not look at the verbs to
\* learn.
newOrAnyNotExpectsInfinitiveVerbIgnoringToLearn(verbList, index, toLearn) ==
    IF HasUnknown(index, toLearn)
    THEN {Raise("KeyError", "newOrAnyNotExpectsInfinitiveVerb")}
    ELSE randomWordFromList(SelectSeq(verbList, LAMBDA v : ~v.expectInfinitive))

\* newOrAnyNotExpectsInfinitiveVerb falling back to every verb of the list.
newOrAnyNotExpectsInfinitiveVerbAnyFallback(verbList, index, toLearn) ==
    IF HasUnknown(index, toLearn)
    THEN {Raise("KeyError", "newOrAnyNotExpectsInfinitiveVerb")}
    ELSE LET verbsToLearn ==
                 SelectSeq(Resolve(index, toLearn),
                           LAMBDA w : w.type = "Verb" /\ ~w.expectInfinitive)
         IN  IF Len(verbsToLearn) > 0
             THEN randomWordFromList(verbsToLearn)
             ELSE randomWordFromList(verbList)

\* newOrAnyNotExpectsInfinitiveVerb taking every verb to learn, whether or
\* not it expects an infinitive.
newOrAnyNotExpectsInfinitiveVerbUnfiltered(verbList, index, toLearn) ==
    IF HasUnknown(index, toLearn)
    THEN {Raise("KeyError", "newOrAnyNotExpectsInfinitiveVerb")}
    ELSE LET verbsToLearn ==
                 SelectSeq(Resolve(index, toLearn), LAMBDA w : w.type = "Verb")
         IN  IF Len(verbsToLearn) > 0
             THEN randomWordFromList(verbsToLearn)
             ELSE randomWordFromList(
                      SelectSeq(verbList, LAMBDA v : ~v.expectInfinitive))

newOrAnyNotExpectsInfinitiveVerb(verbList, index, toLearn) ==
    IF HasUnknown(index, toLearn)
    THEN {Raise("KeyError", "newOrAnyNotExpectsInfinitiveVerb")}
    ELSE LET verbsToLearn ==
                 SelectSeq(Resolve(index, toLearn),
                           LAMBDA w : w.type = "Verb" /\ ~w.expectInfinitive)
         IN  IF Len(verbsToLearn) > 0
             THEN randomWordFromList(verbsToLearn)
             ELSE randomWordFromList(
                      SelectSeq(verbList, LAMBDA v : ~v.expectInfinitive))

---------------------------------------------------------------------------
(* Sentence state machine. *)

NextPartType == {"Word", "VerbQuestion"}

NextPart(type, wordType, wordForm) ==
    [type |-> type, wordType |-> wordType, wordForm |-> wordForm,
     verbQuestion |-> None]

\* SentenceGenerator.__init__: the fields of a new generator.
SentenceGeneratorInit(startsWithQuestion) ==
    [startWithQuestion |-> startsWithQuestion,
     sentence |-> <<>>,
     nextPart |-> IF startsWithQuestion
                  THEN NextPart("Word", "Question", NoneWordForm)
                  ELSE NextPart("Word", "Pronoun", NoneWordForm)]

\* The part descriptor left as it was after the infinitive was appended.
NextPartAfterInfinitiveKept == NextPart("Word", "Verb", WordForm("Infinitive", None))

\* The part descriptor after the infinitive was appended (line 182).
NextPartAfterInfinitive == NoneNextPart

\* The finite verb step asking next for the question of a verb that has
\* one.
NextPartAfterVerbAsksQuestion(verb) ==
    IF verb.expectInfinitive
    THEN NextPart("Word", "Verb", WordForm("Infinitive", None))
    ELSE IF Len(verb.questions) > 0
    THEN [type |-> "VerbQuestion", wordType |-> None, wordForm |-> NoneWordForm,
          verbQuestion |-> verb.questions[1]]
    ELSE NoneNextPart

\* The finite verb step asking for a finite verb again instead of the
\* infinitive.
NextPartAfterVerbFiniteAgain(verb) ==
    IF verb.expectInfinitive
    THEN NextPart("Word", "Verb", WordForm("First", "Singular"))
    ELSE NoneNextPart

\* The part descriptor after the finite verb was appended (lines 186-189).
NextPartAfterVerb(verb) ==
    IF verb.expectInfinitive
    THEN NextPart("Word", "Verb", WordForm("Infinitive", None))
    ELSE NoneNextPart

\* What one call of generateNextPart leaves: the exception raised (or None),
\* the generator's fields, and the word the call selected with the name of
\* the local it is bound to.
Step(exc, at, soFar, part, picked, pickedAs) ==
    [exc |-> exc, at |-> at, sentence |-> soFar, nextPart |-> part,
     picked |-> picked, pickedAs |-> pickedAs]

\* The possible outcomes of one call of SentenceGenerator.generateNextPart
\* on a generator whose fields are `part` and `soFar`.  An exception is
\* raised before the append, so it leaves the fields as they were.
generateNextPart(part, soFar, ws, index, toLearn, coin) ==
    CASE part.type = "Word" /\ part.wordType = "Question" ->
            {IF r.exc # None THEN Step(r.exc, r.at, soFar, part, NoWord, None)
             ELSE Step(None, None, Append(soFar, wordText(r.val)),
                       NextPart("Word", "Pronoun", NoneWordForm),
                       r.val, "questionWord")
             : r \in newOrAnyWord(ws.questionWords, index, toLearn)}
      [] part.type = "Word" /\ part.wordType = "Pronoun" ->
            {IF r.exc # None THEN Step(r.exc, r.at, soFar, part, NoWord, None)
             ELSE Step(None, None, Append(soFar, wordText(r.val)),
                       NextPart("Word", "Verb", pronounForm(r.val)),
                       r.val, "pronoun")
             : r \in newOrAnyWord(ws.pronouns, index, toLearn)}
      [] part.type = "Word" /\ part.wordType = "Verb"
           /\ part.wordForm.conjugationType = "Infinitive" ->
            {IF r.exc # None THEN Step(r.exc, r.at, soFar, part, NoWord, None)
             ELSE Step(None, None, Append(soFar, wordText(r.val)),
                       NextPartAfterInfinitive, r.val, "infinitiveVerb")
             : r \in newOrAnyNotExpectsInfinitiveVerb(ws.verbs, index, toLearn)}
      [] part.type = "Word" /\ part.wordType = "Verb"
           /\ part.wordForm.conjugationType # "Infinitive" ->
            {IF r.exc # None THEN Step(r.exc, r.at, soFar, part, NoWord, None)
             ELSE LET t == verbTextInForm(r.val, part.wordForm)
                  IN  IF t.exc # None
                      THEN Step(t.exc, t.at, soFar, part, r.val, "newVerb")
                      ELSE Step(None, None, Append(soFar, t.val),
                                NextPartAfterVerb(r.val), r.val, "newVerb")
             : r \in newOrAnyVerb(ws.verbs, index, toLearn, coin)}
      [] part.type = "VerbQuestion" ->
            {Step(None, None, soFar, NoneNextPart, NoWord, None)}

---------------------------------------------------------------------------
(* The inputs generateSentence is run on. *)

\* Verb forms built from a one-letter stem: the infinitive is the stem and
\* U+042C, the conjugation of person p is the stem and a letter per person
\* and number (upper case in the singular, so that lower-casing shows).
Conjugations(stem, n) ==
    [p \in 1..n |->
        Conjugation(<<stem, <<1070, 1064, 1058>>[p]>>,
                    <<stem, <<1084, 1077, 1103>>[p]>>)]

Lyubit == VerbWord(<<1051, 1068>>, Conjugations(1051, 3), FALSE, <<"Whom">>)
Dumat == VerbWord(<<1044, 1068>>, Conjugations(1044, 3), FALSE, <<"AboutWhom">>)
Khotet == VerbWord(<<1061, 1068>>, Conjugations(1061, 3), TRUE, <<>>)
\* A verb whose conjugation list stops after the first person.
Moch == VerbWord(<<1052, 1068>>, Conjugations(1052, 1), TRUE, <<>>)

VerbPool == {Lyubit, Dumat, Khotet, Moch}

\* The verb lists: up to MaxVerbs verbs of the pool, each listed once.
VerbLists ==
    {v \in UNION {[1..n -> VerbPool] : n \in 0..MaxVerbs} :
        \A i, j \in 1..Len(v) : v[i] = v[j] => i = j}

\* main appends one PronounWord per PronounName member, in this order.
AllPronouns ==
    <<PronounWord("I"), PronounWord("You"), PronounWord("He"), PronounWord("She"),
      PronounWord("We"), PronounWord("YouPlural"), PronounWord("They")>>

PronounLists == {<<>>, AllPronouns}

\* No question word; one; two, the first of which lower-cases to the text
\* of the pronoun I; one whose text begins with U+00BF, a character that
\* has no case.
QuestionLists ==
    {<<>>,
     <<QuestionWord(<<1050, 1090, 1086>>)>>,
     <<QuestionWord(<<1071>>), QuestionWord(<<1050, 1090, 1086>>)>>,
     <<QuestionWord(<<191, 1050, 1090, 1086>>)>>}

\* Lower-cased texts a caller may name as learning targets: a question
\* word, two pronouns, the infinitives of Lyubit and Khotet.
LearnPool ==
    {<<1082, 1090, 1086>>, <<1103>>, <<1086, 1085, 1080>>,
     <<1083, 1100>>, <<1093, 1100>>}

LearnLists == UNION {[1..n -> LearnPool] : n \in 0..MaxWordsToLearn}

---------------------------------------------------------------------------
(* generateSentence as a state machine. *)

Init ==
    /\ words \in {Words(q, p, v) : q \in QuestionLists, p \in PronounLists,
                                   v \in VerbLists}
    /\ wordTextToWord = makeWordsByText(words)
    /\ wordsToLearn \in LearnLists
    /\ pc = "start"
    /\ startWithQuestion = FALSE
    /\ sentence = <<>>
    /\ nextPart = NoneNextPart
    /\ questionWord = NoWord
    /\ pronoun = NoWord
    /\ newVerb = NoWord
    /\ infinitiveVerb = NoWord
    /\ calls = 0
    /\ error = NoError
    /\ result = NoResult

\* any([wordTextToWord[wordText].type == WordType.Question ...]), every
\* text a key.
AnyQuestionToLearn(index, toLearn) ==
    \E i \in 1..Len(toLearn) : index[toLearn[i]].type = "Question"

\* startWithQuestion decided by the coin alone.
decideStartWithQuestionByCoin(index, toLearn, coin) ==
    IF HasUnknown(index, toLearn)
    THEN [exc |-> "KeyError", at |-> "generateSentence", val |-> FALSE]
    ELSE [exc |-> None, at |-> None, val |-> coin]

\* startWithQuestion with any() reading a generator: the texts after the
\* first question word are never looked up.
decideStartWithQuestionLazily(index, toLearn, coin) ==
    LET known(i) == toLearn[i] \in DOMAIN index
        isQuestion(i) == known(i) /\ index[toLearn[i]].type = "Question"
        reached(i) == \A j \in 1..(i - 1) : known(j) /\ ~isQuestion(j)
    IN  IF \E i \in 1..Len(toLearn) : reached(i) /\ ~known(i)
        THEN [exc |-> "KeyError", at |-> "generateSentence", val |-> FALSE]
        ELSE [exc |-> None, at |-> None,
              val |-> (\E i \in 1..Len(toLearn) : reached(i) /\ isQuestion(i)) \/ coin]

\* Lines 195-197: the value of startWithQuestion.  The list is built in
\* full before any() reads it, so a text that is no key raises KeyError
\* wherever it stands; the coin is read only when no text is a question.
decideStartWithQuestion(index, toLearn, coin) ==
    IF HasUnknown(index, toLearn)
    THEN [exc |-> "KeyError", at |-> "generateSentence", val |-> FALSE]
    ELSE [exc |-> None, at |-> None,
          val |-> AnyQuestionToLearn(index, toLearn) \/ coin]

\* Lines 195-199: the start state is decided and the generator constructed.
Start ==
    /\ pc = "start"
    /\ \E coin \in BOOLEAN :
          LET d == decideStartWithQuestion(wordTextToWord, wordsToLearn, coin)
              g == SentenceGeneratorInit(d.val)
          IN  IF d.exc # None
              THEN /\ pc' = "raised"
                   /\ error' = [exc |-> d.exc, at |-> d.at]
                   /\ UNCHANGED <<startWithQuestion, sentence, nextPart>>
              ELSE /\ startWithQuestion' = g.startWithQuestion
                   /\ sentence' = g.sentence
                   /\ nextPart' = g.nextPart
                   /\ pc' = "loop"
                   /\ error' = error
    /\ UNCHANGED <<words, wordTextToWord, wordsToLearn, questionWord, pronoun,
                   newVerb, infinitiveVerb, calls, result>>

\* Lines 200-201: one iteration of the while loop, a call of generateNextPart.
\* An exception leaves the generator as it was and ends generateSentence.
GenerateNextPart ==
    /\ pc = "loop"
    /\ \E coin \in BOOLEAN :
          \E s \in generateNextPart(nextPart, sentence, words, wordTextToWord,
                                    wordsToLearn, coin) :
              /\ calls' = calls + 1
              /\ sentence' = s.sentence
              /\ nextPart' = s.nextPart
              /\ questionWord' = IF s.pickedAs = "questionWord" THEN s.picked
                                 ELSE questionWord
              /\ pronoun' = IF s.pickedAs = "pronoun" THEN s.picked ELSE pronoun
              /\ newVerb' = IF s.pickedAs = "newVerb" THEN s.picked ELSE newVerb
              /\ infinitiveVerb' = IF s.pickedAs = "infinitiveVerb" THEN s.picked
                                   ELSE infinitiveVerb
              /\ error' = [exc |-> s.exc, at |-> s.at]
              /\ pc' = IF s.exc # None THEN "raised"
                       ELSE IF s.nextPart # NoneNextPart THEN "loop"
                       ELSE "finish"
    /\ UNCHANGED <<words, wordTextToWord, wordsToLearn, startWithQuestion, result>>

\* Lines 203-206: the first token is capitalized in place and the tokens
\* are joined by single spaces.
Finish ==
    /\ pc = "finish"
    /\ IF Len(sentence) = 0
       THEN /\ pc' = "raised"
            /\ error' = [exc |-> "IndexError", at |-> "generateSentence"]
            /\ UNCHANGED <<sentence, result>>
       ELSE /\ sentence' = [sentence EXCEPT ![1] = Capitalize(sentence[1])]
            /\ result' = [returned |-> TRUE, text |-> Join(sentence')]
            /\ pc' = "returned"
            /\ error' = error
    /\ UNCHANGED <<words, wordTextToWord, wordsToLearn, startWithQuestion,
                   nextPart, questionWord, pronoun, newVerb, infinitiveVerb, calls>>

Next == Start \/ GenerateNextPart \/ Finish

Spec == Init /\ [][Next]_vars

\* generateSentence is sequential code: a statement that can run does run.
FairSpec == Spec /\ WF_vars(Next)

---------------------------------------------------------------------------
(* Vocabulary of the properties.  These definitions read the inputs and    *)
(* the generator's state directly; none of them uses the operators that    *)
(* model the selection policy.                                             *)

Range(seq) == {seq[i] : i \in 1..Len(seq)}

\* The generator exists: Start constructed it.
Constructed == pc \in {"loop", "finish", "returned"} \/ (pc = "raised" /\ calls > 0)

\* Positions of the tokens in the sentence.
PronounAt == IF startWithQuestion THEN 2 ELSE 1
FiniteVerbAt == PronounAt + 1
InfinitiveAt == PronounAt + 2

\* The learning targets that are keys of the index, resolved.
KnownTargets ==
    {wordTextToWord[wordsToLearn[i]] :
        i \in {j \in 1..Len(wordsToLearn) : wordsToLearn[j] \in DOMAIN wordTextToWord}}

SomeTargetUnknown ==
    \E i \in 1..Len(wordsToLearn) : wordsToLearn[i] \notin DOMAIN wordTextToWord

TargetsOfType(type) == {w \in KnownTargets : w.type = type}

\* A token as appended, or as capitalized by the post-processing.
IsTextOf(token, text) == token = text \/ token = Capitalize(text)

LowerText(word) ==
    Lower(IF word.type = "Question" THEN word.text
          ELSE IF word.type = "Pronoun" THEN PronounNameValue(word.pronounName)
          ELSE word.forms.infinitive)

IsQuestionToken(token) ==
    \E w \in Range(words.questionWords) : IsTextOf(token, LowerText(w))

IsPronounToken(token) ==
    \E w \in Range(words.pronouns) : IsTextOf(token, LowerText(w))

IsFiniteVerbToken(token) ==
    \E v \in Range(words.verbs) : \E p \in 1..Len(v.forms.conjugations) :
        \/ token = Lower(v.forms.conjugations[p].singular)
        \/ token = Lower(v.forms.conjugations[p].plural)

IsInfinitiveToken(token) ==
    \E v \in Range(words.verbs) : token = LowerText(v)

---------------------------------------------------------------------------
(* C1.  In every returned sentence whose finite verb (the verb appended    *)
(* right after the pronoun) expects an infinitive, exactly one token       *)
(* follows the finite verb; it is the last token and it is the lower-cased *)
(* infinitive of a verb of the vocabulary that does not expect an          *)
(* infinitive.                                                             *)

C1_InfinitiveComplement ==
    (pc = "returned" /\ newVerb.expectInfinitive) =>
        /\ Len(sentence) = FiniteVerbAt + 1
        /\ \E v \in Range(words.verbs) :
              /\ ~v.expectInfinitive
              /\ sentence[Len(sentence)] = Lower(v.forms.infinitive)
        /\ ~infinitiveVerb.expectInfinitive
        /\ sentence[Len(sentence)] = Lower(infinitiveVerb.forms.infinitive)

C1_Witness ==
    /\ pc = "returned"
    /\ newVerb.expectInfinitive
    /\ startWithQuestion
    /\ Len(sentence) = 4

---------------------------------------------------------------------------
(* C2.  When some learning target resolves through the index to a         *)
(* Question word, every run constructs the generator in the Question       *)
(* state and every returned sentence begins with a question word; a        *)
(* generator constructed in the Pronoun state means no target is a         *)
(* question word.                                                          *)

C2_QuestionForced ==
    /\ (TargetsOfType("Question") # {} /\ ~SomeTargetUnknown) =>
          /\ pc # "raised" \/ calls > 0
          /\ Constructed => startWithQuestion
          /\ (pc = "loop" /\ calls = 0) =>
                (nextPart.type = "Word" /\ nextPart.wordType = "Question")
          /\ pc = "returned" => IsQuestionToken(sentence[1])
    /\ (Constructed /\ ~startWithQuestion) => TargetsOfType("Question") = {}
    /\ (pc = "loop" /\ calls = 0 /\ nextPart.wordType = "Pronoun") =>
          TargetsOfType("Question") = {}

C2_Witness ==
    /\ pc = "returned"
    /\ TargetsOfType("Question") # {}
    /\ sentence[1] = <<1050, 1090, 1086>>

---------------------------------------------------------------------------
(* C3.  The sentence-so-far is always a prefix of: at most one question    *)
(* token, one pronoun token, one finite verb token, at most one infinitive *)
(* token; a returned sentence has the pronoun and the finite verb, so it   *)
(* has between 2 and 4 tokens.                                             *)

C3_SentenceShape ==
    /\ Len(sentence) <= InfinitiveAt
    /\ \A i \in 1..Len(sentence) :
          /\ (startWithQuestion /\ i = 1) => IsQuestionToken(sentence[i])
          /\ i = PronounAt => IsPronounToken(sentence[i])
          /\ i = FiniteVerbAt => IsFiniteVerbToken(sentence[i])
          /\ i = InfinitiveAt => IsInfinitiveToken(sentence[i])
    /\ pc = "returned" =>
          /\ Len(sentence) \in {FiniteVerbAt, InfinitiveAt}
          /\ Len(sentence) \in 2..4

C3_Witness ==
    /\ pc = "returned"
    /\ Len(sentence) = 4
    /\ IsQuestionToken(sentence[1])
    /\ IsPronounToken(sentence[2])
    /\ IsFiniteVerbToken(sentence[3])
    /\ IsInfinitiveToken(sentence[4])

---------------------------------------------------------------------------
(* C4.  In every returned sentence the finite verb token is the            *)
(* lower-cased conjugation of the picked verb at the person of             *)
(* pronounForm(pronoun), singular or plural by its number, where pronoun   *)
(* is the pronoun whose text the sentence holds; the form the Verb step    *)
(* receives for the finite verb is pronounForm(pronoun), never Infinitive. *)

PersonIndex(conjugationType) ==
    IF conjugationType = "First" THEN 1
    ELSE IF conjugationType = "Second" THEN 2
    ELSE IF conjugationType = "Third" THEN 3
    ELSE 4

\* C4: the finite verb token agrees in person and number with the pronoun
\* of the same sentence, and the form it is rendered in is never Infinitive.
C4_Agreement ==
    /\ pc = "returned" =>
          LET form == pronounForm(pronoun)
              conjugation == newVerb.forms.conjugations[PersonIndex(form.conjugationType)]
          IN  /\ IsTextOf(sentence[PronounAt], LowerText(pronoun))
              /\ form.conjugationType \in {"First", "Second", "Third"}
              /\ form.singleOrPlural \in SingleOrPlural
              /\ sentence[FiniteVerbAt] =
                     Lower(IF form.singleOrPlural = "Singular"
                           THEN conjugation.singular
                           ELSE conjugation.plural)
    /\ (pc = "loop" /\ Len(sentence) = PronounAt) =>
          /\ nextPart.wordType = "Verb"
          /\ nextPart.wordForm = pronounForm(pronoun)
          /\ nextPart.wordForm.conjugationType # "Infinitive"

C4_Witness ==
    /\ pc = "returned"
    /\ pronoun.pronounName = "They"
    /\ newVerb = Khotet
    /\ sentence[FiniteVerbAt] = <<1093, 1103>>

---------------------------------------------------------------------------
(* C5.  newOrAnyWord on a non-empty list of one type: when some learning   *)
(* target resolves to a word of the list's type, the possible results are  *)
(* exactly the targeted words of that type; when none does, the possible   *)
(* results are exactly the members of the list.  It is checked on the      *)
(* three lists of the vocabulary of every run (at its first state: the     *)
(* inputs never change), and the words the Question and Pronoun steps      *)
(* selected are among these results.                                       *)

Values(outcomes) == {r.val : r \in {o \in outcomes : o.exc = None}}

NewOrAnyWordAsClaimed(wordList) ==
    LET outcomes == newOrAnyWord(wordList, wordTextToWord, wordsToLearn)
        targeted == TargetsOfType(wordList[1].type)
    IN  /\ targeted # {} => Values(outcomes) \subseteq targeted
        /\ ~SomeTargetUnknown =>
              /\ \A o \in outcomes : o.exc = None
              /\ targeted # {} => Values(outcomes) = targeted
              /\ targeted = {} => Values(outcomes) = Range(wordList)

\* C5: newOrAnyWord returns exactly the targeted words of the list's type
\* when there are any, else exactly the members of the list.
C5_NewOrAnyWord ==
    /\ pc = "start" =>
          \A wordList \in {words.questionWords, words.pronouns, words.verbs} :
              Len(wordList) > 0 => NewOrAnyWordAsClaimed(wordList)
    /\ questionWord # NoWord =>
          IF TargetsOfType("Question") # {}
          THEN questionWord \in TargetsOfType("Question")
          ELSE questionWord \in Range(words.questionWords)
    /\ pronoun # NoWord =>
          IF TargetsOfType("Pronoun") # {}
          THEN pronoun \in TargetsOfType("Pronoun")
          ELSE pronoun \in Range(words.pronouns)

\* Two targeted pronouns among seven, and the second one was selected.
C5_Witness ==
    /\ Len(words.pronouns) = 7
    /\ Cardinality(TargetsOfType("Pronoun")) = 2
    /\ pronoun = PronounWord("They")
    /\ pc = "returned"

---------------------------------------------------------------------------
(* C6.  newOrAnyVerb, with targetedVerbs the learning targets of type      *)
(* Verb: (1) some targeted verb expects an infinitive: the possible        *)
(* results are the targeted verbs, whatever the coin; (2) targeted verbs   *)
(* exist and none expects an infinitive: the targeted verbs when the coin  *)
(* is true, the vocabulary's verbs that expect an infinitive when it is    *)
(* false; (3) no targeted verb: every verb of the vocabulary, whatever its *)
(* expectInfinitive.  The finite verb of every run is among these results. *)

ExpectingInfinitive(verbs) == {v \in verbs : v.expectInfinitive}

NewOrAnyVerbValues(coin) ==
    Values(newOrAnyVerb(words.verbs, wordTextToWord, wordsToLearn, coin))

\* C6: the three cases of newOrAnyVerb, and the finite verb of every run
\* falls under one of them.
C6_NewOrAnyVerb ==
    LET targetedVerbs == TargetsOfType("Verb")
    IN  /\ (pc = "start" /\ ~SomeTargetUnknown) =>
          /\ (targetedVerbs # {} /\ ExpectingInfinitive(targetedVerbs) # {}) =>
                \A coin \in BOOLEAN : NewOrAnyVerbValues(coin) = targetedVerbs
          /\ (targetedVerbs # {} /\ ExpectingInfinitive(targetedVerbs) = {}) =>
                /\ NewOrAnyVerbValues(TRUE) = targetedVerbs
                /\ NewOrAnyVerbValues(FALSE) = ExpectingInfinitive(Range(words.verbs))
          /\ targetedVerbs = {} =>
                \A coin \in BOOLEAN : NewOrAnyVerbValues(coin) = Range(words.verbs)
        /\ newVerb # NoWord =>
                \/ newVerb \in targetedVerbs
                \/ /\ targetedVerbs # {}
                   /\ ExpectingInfinitive(targetedVerbs) = {}
                   /\ newVerb \in ExpectingInfinitive(Range(words.verbs))
                \/ targetedVerbs = {} /\ newVerb \in Range(words.verbs)

\* Case (2) with the coin false: the finite verb is not a targeted verb.
C6_Witness ==
    /\ pc = "returned"
    /\ TargetsOfType("Verb") = {Lyubit}
    /\ newVerb = Khotet

---------------------------------------------------------------------------
(* C7.  newOrAnyNotExpectsInfinitiveVerb returns only verbs that do not    *)
(* expect an infinitive: the targeted such verbs when there are any, else  *)
(* the such verbs of the vocabulary.  The generator uses it for the verb   *)
(* that follows the finite verb and for no other token.                    *)

NotExpectingInfinitive(verbs) == {v \in verbs : ~v.expectInfinitive}

\* C7: newOrAnyNotExpectsInfinitiveVerb returns only verbs that do not
\* expect an infinitive, targeted ones first, and only for the token after
\* the finite verb.
C7_NewOrAnyNotExpectsInfinitiveVerb ==
    LET outcomes == newOrAnyNotExpectsInfinitiveVerb(words.verbs, wordTextToWord,
                                                     wordsToLearn)
        targeted == NotExpectingInfinitive(TargetsOfType("Verb"))
        claimed == IF targeted # {} THEN targeted
                   ELSE NotExpectingInfinitive(Range(words.verbs))
    IN  /\ pc = "start" =>
              /\ \A v \in Values(outcomes) : ~v.expectInfinitive
              /\ ~SomeTargetUnknown => Values(outcomes) = claimed
        /\ infinitiveVerb # NoWord =>
              /\ infinitiveVerb \in claimed
              /\ newVerb # NoWord /\ newVerb.expectInfinitive
              /\ Len(sentence) = InfinitiveAt
              /\ IsTextOf(sentence[InfinitiveAt], LowerText(infinitiveVerb))
        /\ (Len(sentence) >= InfinitiveAt) = (infinitiveVerb # NoWord)

\* A verb that does not expect an infinitive is targeted and another one is
\* not: the targeted one follows a finite verb that expects an infinitive.
C7_Witness ==
    /\ pc = "returned"
    /\ Dumat \in Range(words.verbs)
    /\ TargetsOfType("Verb") = {Lyubit, Khotet}
    /\ newVerb = Khotet
    /\ infinitiveVerb = Lyubit

---------------------------------------------------------------------------
(* C8.  A selection step whose candidate collection is empty fails: the    *)
(* call of generateNextPart raises (IndexError from the subscript of an    *)
(* empty list in newOrAnyWord, ValueError from random.randrange(0, 0) in   *)
(* randomWordFromList), no word is selected and no token appended; after   *)
(* a failure no further step is taken and nothing is returned.             *)

\* The collection a step draws from: the targeted words of the step's kind
\* when there are any, else the vocabulary's words of that kind.
Candidates(part, coin) ==
    LET orElse(targeted, all) == IF targeted # {} THEN targeted ELSE all
        verbs == Range(words.verbs)
        targetedVerbs == TargetsOfType("Verb")
    IN  CASE part.wordType = "Question" ->
                orElse(TargetsOfType("Question"), Range(words.questionWords))
          [] part.wordType = "Pronoun" ->
                orElse(TargetsOfType("Pronoun"), Range(words.pronouns))
          [] part.wordType = "Verb" /\ part.wordForm.conjugationType = "Infinitive" ->
                orElse(NotExpectingInfinitive(targetedVerbs),
                       NotExpectingInfinitive(verbs))
          [] part.wordType = "Verb" /\ part.wordForm.conjugationType # "Infinitive" ->
                IF targetedVerbs = {} THEN verbs
                ELSE IF ExpectingInfinitive(targetedVerbs) # {} \/ coin
                THEN targetedVerbs
                ELSE ExpectingInfinitive(verbs)

EmptyVocabulary(e) ==
    \/ e.exc = "IndexError" /\ e.at = "newOrAnyWord"
    \/ e.exc = "ValueError" /\ e.at = "randomWordFromList"

\* C8: a step whose candidate collection is empty raises, selects nothing,
\* appends nothing, is not retried, and nothing is returned.
C8_EmptyVocabulary ==
    /\ pc = "loop" =>
          \A coin \in BOOLEAN :
              Candidates(nextPart, coin) = {} =>
                  \A s \in generateNextPart(nextPart, sentence, words,
                                            wordTextToWord, wordsToLearn, coin) :
                      /\ EmptyVocabulary(s)
                      /\ s.picked = NoWord
                      /\ s.sentence = sentence
                      /\ s.nextPart = nextPart
    /\ (pc = "raised" /\ EmptyVocabulary(error)) =>
          /\ \E coin \in BOOLEAN : Candidates(nextPart, coin) = {}
          /\ Len(sentence) = calls - 1
    /\ pc = "raised" => (result = NoResult /\ ~ENABLED Next)

\* The finite verb expects an infinitive and no verb can follow it.
C8_Witness ==
    /\ pc = "raised"
    /\ error = [exc |-> "ValueError", at |-> "randomWordFromList"]
    /\ nextPart.wordForm.conjugationType = "Infinitive"
    /\ Len(sentence) = FiniteVerbAt
    /\ NotExpectingInfinitive(Range(words.verbs)) = {}

---------------------------------------------------------------------------
(* C9.  When some learning target is no key of the index, every run fails  *)
(* in its first step with KeyError raised in generateSentence: the         *)
(* generator is never constructed, no token is appended, nothing is        *)
(* returned and nothing follows, wherever the unknown text stands.         *)

C9_UnknownLearningTarget ==
    SomeTargetUnknown =>
        /\ pc \in {"start", "raised"}
        /\ pc = "start" => ENABLED Start
        /\ pc = "raised" =>
              /\ error = [exc |-> "KeyError", at |-> "generateSentence"]
              /\ calls = 0
              /\ sentence = <<>>
              /\ nextPart = NoneNextPart
              /\ result = NoResult
              /\ ~ENABLED Next

\* The unknown text stands after a question word.
C9_Witness ==
    /\ pc = "raised"
    /\ error.exc = "KeyError"
    /\ Len(wordsToLearn) = 2
    /\ wordsToLearn[1] \in DOMAIN wordTextToWord
    /\ wordTextToWord[wordsToLearn[1]].type = "Question"
    /\ wordsToLearn[2] \notin DOMAIN wordTextToWord

---------------------------------------------------------------------------
(* C10.  A call returns a complete sentence or raises, and a call that     *)
(* raised returned nothing.  When the verb picked as finite verb has fewer *)
(* conjugations than the person of the pronoun needs, the call raises      *)
(* IndexError in verbTextInForm with the pronoun token appended and no     *)
(* verb token.                                                             *)

Malformed(verb, form) ==
    Len(verb.forms.conjugations) < PersonIndex(form.conjugationType)

\* C10: a complete sentence is returned or the call raises and returns
\* nothing; a finite verb lacking the conjugation of the pronoun's person
\* raises in verbTextInForm after the pronoun token, before any verb token.
C10_AllOrNothing ==
    /\ result.returned = (pc = "returned")
    /\ pc = "returned" =>
          /\ nextPart = NoneNextPart
          /\ error = NoError
          /\ Len(sentence) = IF newVerb.expectInfinitive THEN InfinitiveAt
                             ELSE FiniteVerbAt
          /\ result.text = Join(sentence)
    /\ pc # "returned" => result = NoResult
    /\ (newVerb # NoWord /\ Malformed(newVerb, pronounForm(pronoun))) =>
          /\ pc = "raised"
          /\ error = [exc |-> "IndexError", at |-> "verbTextInForm"]
          /\ Len(sentence) = PronounAt
          /\ IsTextOf(sentence[PronounAt], LowerText(pronoun))
          /\ infinitiveVerb = NoWord
          /\ result = NoResult
    /\ error.at = "verbTextInForm" =>
          (newVerb # NoWord /\ Malformed(newVerb, pronounForm(pronoun)))

C10_Witness ==
    /\ pc = "raised"
    /\ error = [exc |-> "IndexError", at |-> "verbTextInForm"]
    /\ newVerb = Moch
    /\ pronoun = PronounWord("They")
    /\ startWithQuestion
    /\ Len(sentence) = 2

---------------------------------------------------------------------------
(* C11.  A step whose kind of word no learning target has (the list of     *)
(* targets may be empty) draws from the whole vocabulary of that kind:     *)
(* every question word at the Question step, every pronoun at the Pronoun  *)
(* step, every verb at the finite Verb step, every verb that does not      *)
(* expect an infinitive at the infinitive step can be the word selected.   *)
(* Without a target that is no key of the index, no KeyError is raised.    *)

\* The step about to be made: its word type, and whether it is the
\* infinitive step.
AtStep(wordType, infinitive) ==
    /\ pc = "loop"
    /\ nextPart.wordType = wordType
    /\ (nextPart.wordForm.conjugationType = "Infinitive") = infinitive

\* C11: with no target of the type a step requires, every word of that
\* type in the vocabulary can be selected at the step, and the absence of
\* targets raises no KeyError.
C11_FallbackToVocabulary ==
    /\ (AtStep("Question", FALSE) /\ TargetsOfType("Question") = {}) =>
          \A w \in Range(words.questionWords) :
              ENABLED (GenerateNextPart /\ questionWord' = w)
    /\ (AtStep("Pronoun", FALSE) /\ TargetsOfType("Pronoun") = {}) =>
          \A w \in Range(words.pronouns) :
              ENABLED (GenerateNextPart /\ pronoun' = w)
    /\ (AtStep("Verb", FALSE) /\ TargetsOfType("Verb") = {}) =>
          \A w \in Range(words.verbs) :
              ENABLED (GenerateNextPart /\ newVerb' = w)
    /\ (AtStep("Verb", TRUE) /\ TargetsOfType("Verb") = {}) =>
          \A w \in NotExpectingInfinitive(Range(words.verbs)) :
              ENABLED (GenerateNextPart /\ infinitiveVerb' = w)
    /\ ~SomeTargetUnknown => error.exc # "KeyError"
    /\ (wordsToLearn = <<>> /\ pc = "start") => ENABLED (Start /\ pc' = "loop")

\* Nothing is targeted, and each step selected a word that is not the
\* first of its list.
C11_Witness ==
    /\ pc = "returned"
    /\ wordsToLearn = <<>>
    /\ Len(words.questionWords) = 2 /\ questionWord = words.questionWords[2]
    /\ pronoun = PronounWord("She")
    /\ Len(words.verbs) = 3 /\ newVerb = words.verbs[3]
    /\ infinitiveVerb = words.verbs[2]

---------------------------------------------------------------------------
(* C12.  Every returned sentence begins with an upper-case character and   *)
(* has no other upper-case character; it is the tokens the steps appended, *)
(* the first one with its first character in upper case, separated by      *)
(* single spaces, with nothing after the last token.                       *)

IsUpper(c) == c \in 65..90 \/ c \in 1040..1071

\* The tokens as generateNextPart appended them, given the words selected.
AppendedTokens ==
    (IF startWithQuestion THEN <<LowerText(questionWord)>> ELSE <<>>)
    \o <<LowerText(pronoun), sentence[FiniteVerbAt]>>
    \o (IF infinitiveVerb # NoWord THEN <<LowerText(infinitiveVerb)>> ELSE <<>>)

\* Two to four tokens separated by single spaces.
SeparatedBySpaces(tokens) ==
    CASE Len(tokens) = 2 -> tokens[1] \o <<32>> \o tokens[2]
      [] Len(tokens) = 3 -> tokens[1] \o <<32>> \o tokens[2] \o <<32>> \o tokens[3]
      [] Len(tokens) = 4 -> tokens[1] \o <<32>> \o tokens[2] \o <<32>> \o tokens[3]
                            \o <<32>> \o tokens[4]

\* C12: the returned text starts in upper case and has no upper-case
\* character after the first; only the first token differs from what was
\* appended, and only in its first character; the tokens are separated by
\* single spaces and nothing follows the last token.
C12_Capitalization ==
    pc = "returned" =>
        /\ Len(result.text) > 0
        /\ IsUpper(result.text[1])
        /\ \A i \in 2..Len(result.text) : ~IsUpper(result.text[i])
        /\ Len(sentence) = Len(AppendedTokens)
        /\ Tail(sentence[1]) = Tail(AppendedTokens[1])
        /\ \A i \in 2..Len(sentence) : sentence[i] = AppendedTokens[i]
        /\ result.text = SeparatedBySpaces(sentence)

---------------------------------------------------------------------------
(* C14.  pronounForm is defined on each of the seven pronouns and returns  *)
(* I: First Singular, You: Second Singular, He and She: Third Singular,    *)
(* We: First Plural, YouPlural: Second Plural, They: Third Plural; never   *)
(* the Infinitive person, never an absent number; six distinct forms in    *)
(* all.  The form the generator keeps for the finite verb is the one of    *)
(* the pronoun it selected.                                                *)

\* The person and the number of a pronoun, by grammar.
PersonOf(name) ==
    IF name \in {"I", "We"} THEN "First"
    ELSE IF name \in {"You", "YouPlural"} THEN "Second"
    ELSE "Third"

NumberOf(name) ==
    IF name \in {"I", "You", "He", "She"} THEN "Singular" ELSE "Plural"

\* C14: pronounForm returns the person and number of each of the seven
\* pronouns, never Infinitive nor an absent number, six distinct forms.
C14_PronounForm ==
    /\ \A name \in PronounName :
          LET form == pronounForm(PronounWord(name))
          IN  /\ form.conjugationType = PersonOf(name)
              /\ form.singleOrPlural = NumberOf(name)
              /\ form.conjugationType \in ConjugationType \ {"Infinitive"}
              /\ form.singleOrPlural \in SingleOrPlural
    /\ Cardinality({pronounForm(PronounWord(name)) : name \in PronounName}) = 6
    /\ (pc = "loop" /\ Len(sentence) = PronounAt) =>
          /\ nextPart.wordForm.conjugationType = PersonOf(pronoun.pronounName)
          /\ nextPart.wordForm.singleOrPlural = NumberOf(pronoun.pronounName)

C14_Witness ==
    /\ pc = "loop"
    /\ pronoun = PronounWord("We")
    /\ nextPart.wordForm = [conjugationType |-> "First", singleOrPlural |-> "Plural"]

---------------------------------------------------------------------------
(* C15.  verbTextInForm returns, for the Infinitive form, the infinitive   *)
(* of the verb; for the first, second or third person, the singular text   *)
(* of the conjugation at index 0, 1 or 2 when the number is Singular and   *)
(* its plural text when the number is Plural.  As the code has it, the     *)
(* text returned is that text in lower case.                               *)

\* The forms verbTextInForm is asked for: a person with a number, or the
\* infinitive with or without one.
RenderedForms ==
    {WordForm(c, n) : c \in ConjugationType, n \in SingleOrPlural}
        \cup {WordForm("Infinitive", None)}

\* The verb has the text the form names.
HasTextInForm(verb, form) ==
    \/ form.conjugationType = "Infinitive"
    \/ PersonIndex(form.conjugationType) <= Len(verb.forms.conjugations)

\* The text of the verb the form names, as the vocabulary has it.
TextInForm(verb, form) ==
    IF form.conjugationType = "Infinitive" THEN verb.forms.infinitive
    ELSE IF form.singleOrPlural = "Singular"
    THEN verb.forms.conjugations[PersonIndex(form.conjugationType)].singular
    ELSE verb.forms.conjugations[PersonIndex(form.conjugationType)].plural

\* C15 as stated, for the verb a run selected as finite verb:
\* verbTextInForm returns the text of the verb in the form, and the finite
\* verb token of the sentence is that text.
C15_ReturnsTextAsStored ==
    newVerb # NoWord =>
        /\ \A form \in RenderedForms :
              HasTextInForm(newVerb, form) =>
                  verbTextInForm(newVerb, form) = [exc |-> None, at |-> None,
                                                   val |-> TextInForm(newVerb, form)]
        /\ Len(sentence) >= FiniteVerbAt =>
              sentence[FiniteVerbAt] = TextInForm(newVerb, pronounForm(pronoun))

\* C15, with the lower-casing: verbTextInForm returns the lower-cased text
\* of the verb in the form, for every verb that has that text, and the
\* finite verb token of a sentence is what it returned.
C15_VerbTextInForm ==
    /\ pc = "start" =>
          \A verb \in Range(words.verbs) : \A form \in RenderedForms :
              HasTextInForm(verb, form) =>
                  verbTextInForm(verb, form) = [exc |-> None, at |-> None,
                                                val |-> Lower(TextInForm(verb, form))]
    /\ (newVerb # NoWord /\ Len(sentence) >= FiniteVerbAt) =>
          /\ HasTextInForm(newVerb, pronounForm(pronoun))
          /\ sentence[FiniteVerbAt] = Lower(TextInForm(newVerb, pronounForm(pronoun)))
    /\ newVerb # NoWord => newVerb \in Range(words.verbs)

\* The second person singular of a verb, stored in upper case, was appended
\* in lower case.
C15_Witness ==
    /\ pc = "returned"
    /\ newVerb = Lyubit
    /\ pronoun = PronounWord("You")
    /\ sentence[FiniteVerbAt] = <<1083, 1096>>
    /\ Lyubit.forms.conjugations[2].singular = <<1051, 1064>>

---------------------------------------------------------------------------
(* C16.  The index built by makeWordsByText has as keys exactly the        *)
(* lower-cased texts of the question words, pronouns and verbs (the        *)
(* infinitive for a verb).  When these texts are pairwise distinct each    *)
(* key leads to the word it came from, whose type is that of its list;     *)
(* when two words share a text, the key leads to the one scanned later,    *)
(* the lists being scanned in the order question words, pronouns, verbs.   *)

\* The words in the order of the scan, and the type of the list each
\* position belongs to.
Scanned == words.questionWords \o words.pronouns \o words.verbs

ListTypeAt(i) ==
    IF i <= Len(words.questionWords) THEN "Question"
    ELSE IF i <= Len(words.questionWords) + Len(words.pronouns) THEN "Pronoun"
    ELSE "Verb"

\* C16: the keys are the lower-cased texts; a text that occurs once leads
\* to its word, of the type of its list; a text that occurs more than once
\* leads to the last word scanned with it.  The index is an input of
\* generateSentence, which never changes it.
C16_MakeWordsByText ==
    LET n == Len(Scanned)
        text == [i \in 1..n |-> LowerText(Scanned[i])]
        entry == [i \in 1..n |-> wordTextToWord[text[i]]]
        textsDistinct == \A i, j \in 1..n : text[i] = text[j] => i = j
    IN  pc = "start" =>
            /\ DOMAIN wordTextToWord = {text[i] : i \in 1..n}
            /\ textsDistinct =>
                  \A i \in 1..n : entry[i] = Scanned[i] /\ entry[i].type = ListTypeAt(i)
            /\ \A i \in 1..n :
                  IF \E j \in (i + 1)..n : text[j] = text[i]
                  THEN entry[i] # Scanned[i]
                  ELSE entry[i] = Scanned[i]

\* A question word and a pronoun share the text: the key leads to the
\* pronoun, and the target of that text was selected as the pronoun.
C16_Witness ==
    /\ pc = "returned"
    /\ Len(words.questionWords) = 2
    /\ LowerText(words.questionWords[1]) = LowerText(PronounWord("I"))
    /\ wordTextToWord[<<1103>>] = PronounWord("I")
    /\ wordsToLearn = <<(<<1103>>)>>
    /\ ~startWithQuestion
    /\ pronoun = PronounWord("I")

---------------------------------------------------------------------------
(* C17.  The loop of generateSentence ends: after at most four calls of    *)
(* generateNextPart the generator is done (nextPart is None) or a call     *)
(* has raised.  A call that does not raise appends exactly one token and   *)
(* leaves the loop running exactly when nextPart is not None; once the     *)
(* generator is done, or a call has raised, no call is made and no token   *)
(* appended.                                                               *)

LoopEnded == pc \in {"finish", "returned", "raised"}

\* What a call of generateNextPart does to the generator.
CallAppendsOneToken ==
    calls' # calls =>
        /\ pc = "loop"
        /\ calls' = calls + 1
        /\ IF error'.exc # None
           THEN sentence' = sentence /\ nextPart' = nextPart /\ pc' = "raised"
           ELSE /\ Len(sentence') = Len(sentence) + 1
                /\ SubSeq(sentence', 1, Len(sentence)) = sentence
                /\ (pc' = "loop") = (nextPart' # NoneNextPart)
                /\ (pc' = "finish") = (nextPart' = NoneNextPart)

\* After the loop nothing is generated.
DoneIsTerminal ==
    LoopEnded =>
        /\ LoopEnded'
        /\ calls' = calls
        /\ nextPart' = nextPart
        /\ Len(sentence') = Len(sentence)

\* C17: every run ends, after at most four calls of generateNextPart, each
\* of which appends one token or raises; done is terminal.
C17_Termination ==
    /\ [](calls <= 4 /\ (pc = "loop" => calls < 4))
    /\ []((pc \in {"finish", "returned"}) => nextPart = NoneNextPart)
    /\ []((pc = "loop") => nextPart # NoneNextPart)
    /\ [][CallAppendsOneToken]_vars
    /\ [][DoneIsTerminal]_vars
    /\ <>(pc \in {"returned", "raised"})

\* A run of four calls: question word, pronoun, finite verb, infinitive.
C17_Witness ==
    /\ pc = "returned"
    /\ calls = 4
    /\ Len(sentence) = 4
    /\ nextPart = NoneNextPart

---------------------------------------------------------------------------
(* C18.  When some learning target is a verb, every returned sentence has  *)
(* a token of a targeted verb: the finite verb is targeted, or else no     *)
(* targeted verb expects an infinitive, the finite verb is a verb of the   *)
(* vocabulary that expects one, and the infinitive that ends the sentence  *)
(* is that of a targeted verb that expects none.  The second case needs    *)
(* the coin to be false: with the coin true the finite verb is targeted.   *)

\* The finite verb token and the infinitive token of the sentence come
\* from these verbs.
FiniteVerbTokenOf(verb) ==
    \E p \in 1..Len(verb.forms.conjugations) :
        sentence[FiniteVerbAt] \in {Lower(verb.forms.conjugations[p].singular),
                                    Lower(verb.forms.conjugations[p].plural)}

InfinitiveTokenOf(verb) ==
    /\ Len(sentence) = InfinitiveAt
    /\ sentence[InfinitiveAt] = Lower(verb.forms.infinitive)

\* C18: a returned sentence has a token of a targeted verb whenever a verb
\* is targeted; the finite verb is untargeted only when no targeted verb
\* expects an infinitive and the coin is false, and then a targeted
\* infinitive follows.
C18_TargetedVerbAppears ==
    LET targetedVerbs == TargetsOfType("Verb")
    IN  /\ (pc = "returned" /\ targetedVerbs # {}) =>
              /\ FiniteVerbTokenOf(newVerb)
              /\ \/ newVerb \in targetedVerbs
                 \/ /\ ExpectingInfinitive(targetedVerbs) = {}
                    /\ newVerb \notin targetedVerbs
                    /\ newVerb.expectInfinitive
                    /\ infinitiveVerb \in targetedVerbs
                    /\ ~infinitiveVerb.expectInfinitive
                    /\ InfinitiveTokenOf(infinitiveVerb)
        /\ (AtStep("Verb", FALSE) /\ targetedVerbs # {}) =>
              \A s \in generateNextPart(nextPart, sentence, words, wordTextToWord,
                                        wordsToLearn, TRUE) :
                  s.picked \in targetedVerbs

\* The coin was false: the finite verb is not targeted, and of the two
\* verbs that expect no infinitive the targeted one ends the sentence.
C18_Witness ==
    /\ pc = "returned"
    /\ TargetsOfType("Verb") = {Lyubit}
    /\ Dumat \in Range(words.verbs)
    /\ newVerb = Khotet
    /\ infinitiveVerb = Lyubit
    /\ sentence[Len(sentence)] = <<1083, 1100>>

---------------------------------------------------------------------------
(* C19.  With a vocabulary that has a question word, a pronoun, a verb     *)
(* that expects an infinitive and one that does not, three conjugations    *)
(* for every verb, and learning targets that are all keys of the index,    *)
(* no run raises: whatever the draws, the generator gets done and a        *)
(* sentence is returned.                                                   *)

WellFormedInputs ==
    /\ Len(words.questionWords) >= 1
    /\ Len(words.pronouns) >= 1
    /\ \E v \in Range(words.verbs) : v.expectInfinitive
    /\ \E v \in Range(words.verbs) : ~v.expectInfinitive
    /\ \A v \in Range(words.verbs) : Len(v.forms.conjugations) = 3
    /\ \A i \in 1..Len(wordsToLearn) : wordsToLearn[i] \in DOMAIN wordTextToWord

\* C19: on well-formed inputs no call raises and every run returns a
\* sentence with the generator done.
C19_NoFailure ==
    /\ [](WellFormedInputs => (pc # "raised" /\ error = NoError))
    /\ WellFormedInputs ~>
          (pc = "returned" /\ result.returned /\ nextPart = NoneNextPart)

\* Two targets, both keys of the index, and a run of four calls.
C19_Witness ==
    /\ WellFormedInputs
    /\ pc = "returned"
    /\ Len(wordsToLearn) = 2
    /\ Len(words.verbs) = 3
    /\ calls = 4

---------------------------------------------------------------------------
(* C20.  nextPart is None or a descriptor of type Word for a question      *)
(* word, a pronoun or a verb; it has a word form exactly when it is for a  *)
(* verb and never a verb question.  No generator is ever in a state of     *)
(* type VerbQuestion, and a generator is in the Question state only        *)
(* before its first token.                                                 *)

\* C20: the shape of nextPart in every state; the VerbQuestion branch is
\* never taken; the Question state is only the state a generator starts in.
C20_NextPartShape ==
    /\ \/ nextPart = NoneNextPart
       \/ /\ nextPart.type = "Word"
          /\ nextPart.wordType \in {"Question", "Pronoun", "Verb"}
          /\ (nextPart.wordForm # NoneWordForm) = (nextPart.wordType = "Verb")
          /\ nextPart.wordType = "Verb" =>
                /\ nextPart.wordForm.conjugationType \in ConjugationType
                /\ nextPart.wordForm.singleOrPlural \in SingleOrPlural \cup {None}
          /\ nextPart.verbQuestion = None
    /\ nextPart.type # "VerbQuestion"
    /\ pc = "loop" => nextPart.type = "Word"
    /\ nextPart.wordType = "Question" =>
          /\ startWithQuestion
          /\ sentence = <<>>
          /\ questionWord = NoWord /\ pronoun = NoWord /\ newVerb = NoWord
          /\ calls = 0 \/ (calls = 1 /\ pc = "raised")

\* The descriptor for the infinitive: a verb, a form with a person and no
\* number.
C20_Witness ==
    /\ pc = "loop"
    /\ startWithQuestion
    /\ calls = 3
    /\ nextPart.type = "Word"
    /\ nextPart.wordType = "Verb"
    /\ nextPart.wordForm = [conjugationType |-> "Infinitive", singleOrPlural |-> None]
    /\ nextPart.verbQuestion = None
    /\ Len(newVerb.questions) = 0

===========================================================================
